---- MODULE Spec2Model ----
(***************************************************************************)
(* Crypto Treasury Tracker (src/app.py): the TreasuryTracker object (FX    *)
(* rate table, cache), the cached fetches (get_treasury_data,             *)
(* get_usd_fx_rates), format_currency, the normalisation of a raw treasury *)
(* payload into a per-company table (process_treasury_data), the           *)
(* single-asset views and the combined BTC/ETH view                        *)
(* (display_combined_data).                                                *)
(*                                                                         *)
(* Cell values.  A pandas cell is a number, NaN (float column with a       *)
(* missing entry) or None (object column).  Numbers are integers here;     *)
(* quotients (percentages) are exact fractions in lowest terms, so the     *)
(* rounding of binary floating point is not modelled.                      *)
(***************************************************************************)
EXTENDS Integers, Sequences, FiniteSets, TLC

VARIABLES
    fx_rates,        \* TreasuryTracker.fx_rates: currency code -> rate per USD
    cache,           \* TreasuryTracker.cache: cache key -> [present, time, data]
    now,             \* time.time()
    last_fetch,      \* outcome of the last request a tracker method issued
    last_call,       \* the last get_usd_fx_rates / get_treasury_data call
    formatted,       \* what the last format_currency call converted
    selected_asset,  \* main: the sidebar's asset selection
    btc_data,        \* main: the bitcoin payload (or None)
    eth_data,        \* main: the ethereum payload (or None)
    btc_df,          \* the table process_treasury_data returned for bitcoin
    eth_df,          \* the table process_treasury_data returned for ethereum
    combined_df,     \* display_combined_data: the merged table
    dominance,       \* display_*_data: the "Market Cap Dominance" metric
    pc               \* main: position in the script run

vars == <<fx_rates, cache, now, last_fetch, last_call, formatted, selected_asset,
          btc_data, eth_data, btc_df, eth_df, combined_df, dominance, pc>>

fxVars == <<fx_rates, cache, now, last_fetch, last_call, formatted>>
dataVars == <<selected_asset, btc_data, eth_data, btc_df, eth_df,
              combined_df, dominance, pc>>

-----------------------------------------------------------------------------
(* Bounds of the model *)

MaxCompanies == 2      \* companies in a payload of the single-asset views
MaxMergeRows == 2      \* companies in a payload of the combined view
MaxNow == 5400         \* seconds a tracker lives through

-----------------------------------------------------------------------------
(* Python and pandas values *)

Num(n) == [tag |-> "num", val |-> n]
NaN == [tag |-> "NaN", val |-> 0]
None == [tag |-> "None", val |-> 0]

IsNum(v) == v.tag = "num"

\* pd.isna / fillna's notion of missing: None and NaN
isna(v) == v.tag # "num"

\* DataFrame.fillna(0) on one cell
fillna0(v) == IF isna(v) THEN Num(0) ELSE v

\* bool(v): None and 0 are falsy, NaN is truthy
truthy(v) == IF v.tag = "None" THEN FALSE
             ELSE IF v.tag = "NaN" THEN TRUE
             ELSE v.val # 0

\* v != 0: NaN compares unequal to everything
ne0(v) == IF IsNum(v) THEN v.val # 0 ELSE TRUE

\* Series - Series on one cell: pandas masks the cells where either side is
\* missing (None in an object column included) and yields NaN there
Sub(a, b) == IF IsNum(a) /\ IsNum(b) THEN Num(a.val - b.val) ELSE NaN

\* Series + Series on one cell
Add(a, b) == IF IsNum(a) /\ IsNum(b) THEN Num(a.val + b.val) ELSE NaN

\* dict.get(k, default)
Get(d, k, default) == IF k \in DOMAIN d THEN d[k] ELSE default

Abs(n) == IF n < 0 THEN -n ELSE n

RECURSIVE GCD(_, _)
GCD(a, b) == IF b = 0 THEN a ELSE GCD(b, a % b)

\* the quotient n / d (d # 0) as a fraction in lowest terms, den > 0
Ratio(n, d) ==
    LET g == GCD(Abs(n), Abs(d))
        s == IF d < 0 THEN -1 ELSE 1
    IN  [tag |-> "num", num |-> (s * n) \div g, den |-> (s * d) \div g]

PctNaN == [tag |-> "NaN", num |-> 0, den |-> 1]

\* (pnl / entry) * 100 on two cells already known not to be None
PctOf(pnl, entry) ==
    IF IsNum(pnl) /\ IsNum(entry) THEN Ratio(pnl.val * 100, entry.val)
    ELSE PctNaN

-----------------------------------------------------------------------------
(* An API payload: None (the fetch failed) or a JSON object *)

EmptyDict == [k \in {} |-> 0]
NonePayload == [none |-> TRUE, d |-> EmptyDict]
Payload(d) == [none |-> FALSE, d |-> d]

\* no request has been issued yet
NoRequest == [raised |-> FALSE, status |-> 0, payload |-> EmptyDict]

\* bool(data): None and {} are falsy
truthyData(data) == ~data.none /\ DOMAIN data.d # {}

-----------------------------------------------------------------------------
(* TreasuryTracker.process_treasury_data *)

\* the dict appended to `companies` for one raw company
CompanyRow(company) ==
    [Name |-> Get(company, "name", "Unknown"),
     Symbol |-> Get(company, "symbol", "N/A"),
     Country |-> Get(company, "country", "Unknown"),
     Total_Holdings |-> Get(company, "total_holdings", Num(0)),
     Entry_Value |-> Get(company, "total_entry_value_usd", Num(0)),
     Current_Value |-> Get(company, "total_current_value_usd", Num(0)),
     Pct_of_Total_Supply |-> Get(company, "percentage_of_total_supply", Num(0))]

\* pd.DataFrame(list of dicts): a column holding a number and a None becomes
\* float64 with NaN for the None; a column of None only stays object (None)
InferCell(rows, col, v) ==
    IF v.tag = "None" /\ \E i \in 1..Len(rows) : IsNum(rows[i][col])
    THEN NaN ELSE v

DataFrame(rows) ==
    [i \in 1..Len(rows) |->
        [Name |-> rows[i].Name,
         Symbol |-> rows[i].Symbol,
         Country |-> rows[i].Country,
         Total_Holdings |-> InferCell(rows, "Total_Holdings", rows[i].Total_Holdings),
         Entry_Value |-> InferCell(rows, "Entry_Value", rows[i].Entry_Value),
         Current_Value |-> InferCell(rows, "Current_Value", rows[i].Current_Value),
         Pct_of_Total_Supply |->
             InferCell(rows, "Pct_of_Total_Supply", rows[i].Pct_of_Total_Supply)]]

\* df['PnL'] = (df['Current Value'] - df['Entry Value']).fillna(0)
PnLOf(r) == fillna0(Sub(r.Current_Value, r.Entry_Value))

\* df['PnL %']: ((r['PnL'] / r['Entry Value']) * 100)
\*              if r['Entry Value'] and r['Entry Value'] != 0 else 0
PnLPctOf(r, pnl) ==
    IF truthy(r.Entry_Value) /\ ne0(r.Entry_Value)
    THEN PctOf(pnl, r.Entry_Value) ELSE Ratio(0, 1)

WithPnL(df) ==
    [i \in 1..Len(df) |->
        [Name |-> df[i].Name,
         Symbol |-> df[i].Symbol,
         Country |-> df[i].Country,
         Total_Holdings |-> df[i].Total_Holdings,
         Entry_Value |-> df[i].Entry_Value,
         Current_Value |-> df[i].Current_Value,
         Pct_of_Total_Supply |-> df[i].Pct_of_Total_Supply,
         PnL |-> PnLOf(df[i]),
         PnL_pct |-> PnLPctOf(df[i], PnLOf(df[i]))]]

\* positions of df whose sort key is missing, in input order
NaPositions(df) ==
    SelectSeq([i \in 1..Len(df) |-> i], LAMBDA i : isna(df[i].Total_Holdings))

NumPositions(df) == {i \in 1..Len(df) : IsNum(df[i].Total_Holdings)}

\* the orders a sort called without ascending=False may return
AscendingOrders(df) ==
    LET S == NumPositions(df)
        k == Cardinality(S)
    IN  {p \in [1..k -> S] :
            /\ \A i, j \in 1..k : i # j => p[i] # p[j]
            /\ \A i, j \in 1..k :
                 i < j => df[p[i]].Total_Holdings.val <= df[p[j]].Total_Holdings.val}

\* df.sort_values('Total Holdings', ascending=False): kind defaults to
\* 'quicksort', which numpy does not make stable, so rows with equal keys may
\* come out in either order; rows with a missing key go last (na_position)
\* in input order.  The orders the call may return:
DescendingOrders(df) ==
    LET S == NumPositions(df)
        k == Cardinality(S)
    IN  {p \in [1..k -> S] :
            /\ \A i, j \in 1..k : i # j => p[i] # p[j]
            /\ \A i, j \in 1..k :
                 i < j => df[p[i]].Total_Holdings.val >= df[p[j]].Total_Holdings.val}

sort_values(df) ==
    LET k == Cardinality(NumPositions(df))
        na == NaPositions(df)
    IN  {[i \in 1..Len(df) |-> IF i <= k THEN df[p[i]] ELSE df[na[i - k]]] :
            p \in DescendingOrders(df)}

\* The tables process_treasury_data may return for `data`
process_treasury_data(data) ==
    IF ~truthyData(data) \/ "companies" \notin DOMAIN data.d
    THEN {<<>>}
    ELSE LET companies == [i \in 1..Len(data.d["companies"]) |->
                              CompanyRow(data.d["companies"][i])]
             df == DataFrame(companies)
         IN  IF Len(df) = 0 THEN {<<>>} ELSE sort_values(WithPnL(df))

-----------------------------------------------------------------------------
(* display_bitcoin_data / display_ethereum_data: the dominance metric *)

BTC_MAX_SUPPLY == 21000000

\* data['total_holdings'] is a flat number or a mapping keyed by asset name
Flat(n) == [isdict |-> FALSE, val |-> n, d |-> EmptyDict]
Nested(d) == [isdict |-> TRUE, val |-> 0, d |-> d]

NotRendered == [tag |-> "none", num |-> 0, den |-> 1]

\* data.get('companies', [])
CompaniesOf(data) == Get(data.d, "companies", <<>>)

\* c.get('percentage_of_total_supply', 0) or 0
PctOrZero(c) ==
    LET v == Get(c, "percentage_of_total_supply", Num(0))
    IN  IF truthy(v) THEN v.val ELSE 0

RECURSIVE SumPct(_)
SumPct(companies) ==
    IF Len(companies) = 0 THEN 0
    ELSE PctOrZero(Head(companies)) + SumPct(Tail(companies))

\* total_btc (col1): the dict form is read with .get('bitcoin', 0)
TotalHeld(data, asset) ==
    LET t == data.d["total_holdings"]
    IN  IF t.isdict THEN Get(t.d, asset, 0) ELSE t.val

\* col5 of display_bitcoin_data; the whole block runs only when the payload
\* has 'total_holdings'
BitcoinDominance(data) ==
    IF "total_holdings" \notin DOMAIN data.d THEN NotRendered
    ELSE LET total_btc == TotalHeld(data, "bitcoin")
             companies == CompaniesOf(data)
         IN  IF Len(companies) > 0 THEN Ratio(SumPct(companies), 1)
             ELSE IF total_btc # 0 THEN Ratio(total_btc * 100, BTC_MAX_SUPPLY)
             ELSE Ratio(0, 1)

\* col5 of display_ethereum_data: no supply fallback
EthereumDominance(data) ==
    IF "total_holdings" \notin DOMAIN data.d THEN NotRendered
    ELSE Ratio(SumPct(CompaniesOf(data)), 1)

-----------------------------------------------------------------------------
(* Raw payloads the API may return (the inputs of a script run) *)

CompanyNames == <<"A", "B", "C", "D">>

NameOf(i) == ("name" :> CompanyNames[i])

\* the total_holdings field of a company varies, the values are fixed
HoldingsFamily(i) ==
    {NameOf(i) @@ h @@ ("total_entry_value_usd" :> Num(2))
               @@ ("total_current_value_usd" :> Num(3)) :
        h \in {EmptyDict} \cup
              {("total_holdings" :> v) : v \in {None, Num(1), Num(2), Num(-1)}}}

\* the entry and current values of a company vary
ValuesFamily(i) ==
    {NameOf(i) @@ ("total_holdings" :> Num(i)) @@ e @@ c :
        e \in {EmptyDict} \cup
              {("total_entry_value_usd" :> v) : v \in {None, Num(0), Num(2)}},
        c \in {EmptyDict} \cup
              {("total_current_value_usd" :> v) : v \in {None, Num(3), Num(-1)}}}

\* the reported share of supply of a company varies
SupplyFamily(i) ==
    {NameOf(i) @@ ("total_holdings" :> Num(1)) @@ p :
        p \in {EmptyDict} \cup
              {("percentage_of_total_supply" :> v) : v \in {None, Num(0), Num(1), Num(2)}}}

\* the companies a family has for position i of a company list
FamilyAt(family, i) ==
    CASE family = "holdings" -> HoldingsFamily(i)
      [] family = "values" -> ValuesFamily(i)
      [] family = "supply" -> SupplyFamily(i)

\* company lists of up to n companies, the i-th drawn from the family
ListsOf(family, n) ==
    UNION {{s \in [1..k -> UNION {FamilyAt(family, i) : i \in 1..k}] :
               \A i \in 1..k : s[i] \in FamilyAt(family, i)} : k \in 0..n}

TotalHoldingsOpts ==
    {EmptyDict,
     ("total_holdings" :> Flat(0)),
     ("total_holdings" :> Flat(2100000)),
     ("total_holdings" :> Nested(("bitcoin" :> 2100000))),
     ("total_holdings" :> Nested(EmptyDict))}

SinglePayloads ==
    {NonePayload, Payload(EmptyDict)}
    \cup {Payload(t) : t \in TotalHoldingsOpts \ {EmptyDict}}
    \cup {Payload(("companies" :> s) @@ ("total_holdings" :> Flat(3))) :
             s \in ListsOf("holdings", MaxCompanies)
                   \cup ListsOf("values", MaxCompanies)}
    \cup {Payload(("companies" :> s) @@ t) :
             s \in ListsOf("supply", MaxCompanies), t \in TotalHoldingsOpts}

-----------------------------------------------------------------------------
(* main: one script run *)

\* the keys self.cache is written under
CacheKeys == {"usd_fx_rates", "treasury_bitcoin", "treasury_ethereum"}

\* a key that is not in self.cache
NoEntry(k) ==
    [present |-> FALSE, time |-> 0,
     data |-> IF k = "usd_fx_rates" THEN ("USD" :> 1) ELSE NonePayload]

\* no cached method has been called yet
NoCall == [fn |-> "", key |-> "", at |-> 0, issued |-> FALSE, returned |-> NonePayload]

InitTracker ==
    /\ fx_rates = ("USD" :> 1)
    /\ cache = [k \in CacheKeys |-> NoEntry(k)]
    /\ now = 0
    /\ last_fetch = NoRequest
    /\ last_call = NoCall
    /\ formatted = [called |-> FALSE, value |-> Num(0), currency |-> "USD",
                    prefix |-> "$", zero |-> TRUE, converted |-> 0,
                    mantissa |-> Ratio(0, 1), hundredths |-> 0,
                    suffix |-> "", text |-> ""]

InitRun ==
    /\ selected_asset = "Bitcoin (BTC)"
    /\ btc_data = NonePayload
    /\ eth_data = NonePayload
    /\ btc_df = <<>>
    /\ eth_df = <<>>
    /\ combined_df = <<>>
    /\ dominance = NotRendered
    /\ pc = "load"

Init == InitTracker /\ InitRun

\* lines 241-245, 273-282: the selection and the payloads get_treasury_data
\* returns for it (None when the fetch fails)
LoadData(sel, b, e) ==
    /\ pc = "load"
    /\ selected_asset' = sel
    /\ btc_data' = IF sel \in {"Bitcoin (BTC)", "Both"} THEN b ELSE NonePayload
    /\ eth_data' = IF sel \in {"Ethereum (ETH)", "Both"} THEN e ELSE NonePayload
    /\ pc' = "display"
    /\ UNCHANGED <<btc_df, eth_df, combined_df, dominance>>
    /\ UNCHANGED fxVars

LoadSingle ==
    \E sel \in {"Bitcoin (BTC)", "Ethereum (ETH)"}, p \in SinglePayloads :
        LoadData(sel, p, p)

\* line 285-286 and display_bitcoin_data
DisplayBitcoinData ==
    /\ pc = "display"
    /\ selected_asset = "Bitcoin (BTC)"
    /\ truthyData(btc_data)
    /\ dominance' = BitcoinDominance(btc_data)
    /\ \E df \in process_treasury_data(btc_data) : btc_df' = df
    /\ pc' = "done"
    /\ UNCHANGED <<selected_asset, btc_data, eth_data, eth_df, combined_df>>
    /\ UNCHANGED fxVars

\* line 287-288 and display_ethereum_data
DisplayEthereumData ==
    /\ pc = "display"
    /\ selected_asset = "Ethereum (ETH)"
    /\ truthyData(eth_data)
    /\ dominance' = EthereumDominance(eth_data)
    /\ \E df \in process_treasury_data(eth_data) : eth_df' = df
    /\ pc' = "done"
    /\ UNCHANGED <<selected_asset, btc_data, eth_data, btc_df, combined_df>>
    /\ UNCHANGED fxVars

\* line 291-292: the else branch, st.warning("No data available...")
NoData ==
    /\ pc = "display"
    /\ \/ selected_asset = "Bitcoin (BTC)" /\ ~truthyData(btc_data)
       \/ selected_asset = "Ethereum (ETH)" /\ ~truthyData(eth_data)
       \/ selected_asset = "Both" /\ ~truthyData(btc_data) /\ ~truthyData(eth_data)
    /\ pc' = "done"
    /\ UNCHANGED <<selected_asset, btc_data, eth_data, btc_df, eth_df,
                   combined_df, dominance>>
    /\ UNCHANGED fxVars

\* Streamlit runs the script again from the top: the run's locals are gone
Rerun ==
    /\ pc = "done"
    /\ selected_asset' = "Bitcoin (BTC)"
    /\ btc_data' = NonePayload
    /\ eth_data' = NonePayload
    /\ btc_df' = <<>>
    /\ eth_df' = <<>>
    /\ combined_df' = <<>>
    /\ dominance' = NotRendered
    /\ pc' = "load"
    /\ UNCHANGED fxVars

NextSingle ==
    \/ LoadSingle
    \/ DisplayBitcoinData
    \/ DisplayEthereumData
    \/ NoData
    \/ Rerun

SpecSingle == Init /\ [][NextSingle]_vars

-----------------------------------------------------------------------------
(* display_combined_data: the outer merge on company identity *)

\* on=['Company','Symbol','Country'] ('Name' is renamed 'Company' first)
KeyOf(r) == <<r.Name, r.Symbol, r.Country>>

\* the strings that occur in identity keys, in Python's string order
StrOrder == <<"A", "B", "N/A", "US", "Unknown">>
Rank(s) == CHOOSE i \in 1..Len(StrOrder) : StrOrder[i] = s

\* k1 < k2 for tuples of three strings
KeyLess(k1, k2) ==
    \/ Rank(k1[1]) < Rank(k2[1])
    \/ k1[1] = k2[1] /\ Rank(k1[2]) < Rank(k2[2])
    \/ k1[1] = k2[1] /\ k1[2] = k2[2] /\ Rank(k1[3]) < Rank(k2[3])

RECURSIVE SortedKeys(_)
SortedKeys(S) ==
    IF S = {} THEN <<>>
    ELSE LET m == CHOOSE k \in S : \A o \in S \ {k} : KeyLess(k, o)
         IN  <<m>> \o SortedKeys(S \ {m})

KeysOf(df) == {KeyOf(df[i]) : i \in 1..Len(df)}

\* the positions of df whose key is k, in order
RowsWithKey(df, k) ==
    SelectSeq([i \in 1..Len(df) |-> i], LAMBDA i : KeyOf(df[i]) = k)

\* one row of the merge's result: the first table's columns are named BTC,
\* the second's ETH
JoinedRow(k, held1, entry1, current1, held2, entry2, current2) ==
    [Company |-> k[1], Symbol |-> k[2], Country |-> k[3],
     BTC_Held |-> held1, EntryUSD_BTC |-> entry1, CurrentUSD_BTC |-> current1,
     ETH_Held |-> held2, EntryUSD_ETH |-> entry2, CurrentUSD_ETH |-> current2]

\* the rows of an outer merge for key k: every pairing of the first table's
\* rows with the second's, or the rows of the one table that has the key,
\* with NaN in the other table's columns
KeyBlock(first, second, k) ==
    LET L == RowsWithKey(first, k)
        R == RowsWithKey(second, k)
    IN  IF Len(R) = 0
        THEN [n \in 1..Len(L) |->
                 JoinedRow(k, first[L[n]].Total_Holdings, first[L[n]].Entry_Value,
                           first[L[n]].Current_Value, NaN, NaN, NaN)]
        ELSE IF Len(L) = 0
        THEN [n \in 1..Len(R) |->
                 JoinedRow(k, NaN, NaN, NaN, second[R[n]].Total_Holdings,
                           second[R[n]].Entry_Value, second[R[n]].Current_Value)]
        ELSE [n \in 1..(Len(L) * Len(R)) |->
                 LET l == first[L[((n - 1) \div Len(R)) + 1]]
                     r == second[R[((n - 1) % Len(R)) + 1]]
                 IN  JoinedRow(k, l.Total_Holdings, l.Entry_Value, l.Current_Value,
                               r.Total_Holdings, r.Entry_Value, r.Current_Value)]

RECURSIVE Blocks(_, _, _)
Blocks(first, second, ks) ==
    IF Len(ks) = 0 THEN <<>>
    ELSE KeyBlock(first, second, Head(ks)) \o Blocks(first, second, Tail(ks))

\* an inner join: only the keys both tables have
merge_inner(first, second) ==
    Blocks(first, second, SortedKeys(KeysOf(first) \cap KeysOf(second)))

\* a left join: only the keys of the first table
merge_left(first, second) ==
    Blocks(first, second, SortedKeys(KeysOf(first)))

\* a right join: only the keys of the second table
merge_right(first, second) ==
    Blocks(first, second, SortedKeys(KeysOf(second)))

\* pd.merge(..., on=[...], how='outer'): the union of the keys, sorted
merge_outer(first, second) ==
    Blocks(first, second, SortedKeys(KeysOf(first) \cup KeysOf(second)))

\* .fillna(0) on the merged table
FillRow(r) ==
    [Company |-> r.Company, Symbol |-> r.Symbol, Country |-> r.Country,
     BTC_Held |-> fillna0(r.BTC_Held),
     EntryUSD_BTC |-> fillna0(r.EntryUSD_BTC),
     CurrentUSD_BTC |-> fillna0(r.CurrentUSD_BTC),
     ETH_Held |-> fillna0(r.ETH_Held),
     EntryUSD_ETH |-> fillna0(r.EntryUSD_ETH),
     CurrentUSD_ETH |-> fillna0(r.CurrentUSD_ETH)]

\* the first asset's entry value alone
TotalEntryFirstOnly(r) == r.EntryUSD_BTC

\* 'Total Entry Value' = EntryUSD_BTC + EntryUSD_ETH
TotalEntryValue(r) == Add(r.EntryUSD_BTC, r.EntryUSD_ETH)

\* 'Total Current Value' = CurrentUSD_BTC + CurrentUSD_ETH
TotalCurrentValue(r) == Add(r.CurrentUSD_BTC, r.CurrentUSD_ETH)

\* 'Company PnL %': the lambda of lines 537-540 on the combined totals
CompanyPnLPct(entry, current) ==
    IF truthy(entry) /\ ne0(entry) THEN PctOf(Sub(current, entry), entry)
    ELSE Ratio(0, 1)

TotalsRow(r) ==
    LET entry == TotalEntryValue(r)
        current == TotalCurrentValue(r)
    IN  [Company |-> r.Company, Symbol |-> r.Symbol, Country |-> r.Country,
         BTC_Held |-> r.BTC_Held, EntryUSD_BTC |-> r.EntryUSD_BTC,
         CurrentUSD_BTC |-> r.CurrentUSD_BTC,
         ETH_Held |-> r.ETH_Held, EntryUSD_ETH |-> r.EntryUSD_ETH,
         CurrentUSD_ETH |-> r.CurrentUSD_ETH,
         Total_Entry_Value |-> entry,
         Total_Current_Value |-> current,
         Total_PnL |-> Sub(current, entry),
         Company_PnL |-> Sub(current, entry),
         Company_PnL_pct |-> CompanyPnLPct(entry, current)]

\* lines 471-485 and 535-540: the merged table with its totals, for the
\* per-asset tables `first` (shown as BTC) and `second` (shown as ETH)
CombinedOf(first, second) ==
    LET m == merge_outer(first, second)
    IN  [i \in 1..Len(m) |-> TotalsRow(FillRow(m[i]))]

\* payloads of the combined view: identity keys repeat within and across
\* the two assets; the country of a company may be missing
MergeKeys ==
    {("name" :> "A") @@ ("country" :> "US"),
     ("name" :> "B") @@ ("country" :> "US"),
     ("name" :> "A")}

BtcMergeCompanies ==
    {k @@ v : k \in MergeKeys,
              v \in {("total_holdings" :> Num(1)) @@ ("total_entry_value_usd" :> Num(2))
                         @@ ("total_current_value_usd" :> Num(3)),
                     ("total_holdings" :> Num(2)) @@ ("total_entry_value_usd" :> Num(0))
                         @@ ("total_current_value_usd" :> None)}}

EthMergeCompanies ==
    {k @@ ("total_holdings" :> Num(5)) @@ ("total_entry_value_usd" :> Num(4))
       @@ ("total_current_value_usd" :> Num(1)) :
        k \in MergeKeys \ {("name" :> "B") @@ ("country" :> "US")}}

\* a failed fetch (None), an empty object, an object without a company list,
\* or company lists of up to MaxMergeRows companies
MergePayloads(companies) ==
    {NonePayload, Payload(EmptyDict), Payload(("total_holdings" :> Flat(3)))} \cup
    {Payload(("companies" :> s)) :
        s \in UNION {[1..k -> companies] : k \in 0..MaxMergeRows}}

LoadCombined ==
    \E b \in MergePayloads(BtcMergeCompanies), e \in MergePayloads(EthMergeCompanies) :
        LoadData("Both", b, e)

\* line 289-290 and display_combined_data
DisplayCombinedData ==
    /\ pc = "display"
    /\ selected_asset = "Both"
    /\ truthyData(btc_data) \/ truthyData(eth_data)
    /\ \E b \in (IF truthyData(btc_data) THEN process_treasury_data(btc_data) ELSE {<<>>}),
          e \in (IF truthyData(eth_data) THEN process_treasury_data(eth_data) ELSE {<<>>}) :
          /\ btc_df' = b
          /\ eth_df' = e
          /\ combined_df' = IF Len(b) > 0 \/ Len(e) > 0 THEN CombinedOf(b, e) ELSE <<>>
    /\ pc' = "done"
    /\ UNCHANGED <<selected_asset, btc_data, eth_data, dominance>>
    /\ UNCHANGED fxVars

NextCombined ==
    \/ LoadCombined
    \/ DisplayCombinedData
    \/ NoData
    \/ Rerun

SpecCombined == Init /\ [][NextCombined]_vars

-----------------------------------------------------------------------------
(* TreasuryTracker: the FX rate table, its cache, format_currency *)

cache_timeout == 3600

Currencies == {"USD", "EUR", "GBP", "JPY", "CAD", "AUD"}

\* a response of requests.get: it raised, or it has a status and a body
Raised == [raised |-> TRUE, status |-> 0, payload |-> EmptyDict]
Response(status, payload) == [raised |-> FALSE, status |-> status, payload |-> payload]

\* float(rates.get(code, 0)) raises TypeError on a null
FloatRaises(rates, code) == ~IsNum(Get(rates, code, Num(0)))

\* float(rates.get(code, 0)), then `if not normalized[k]: normalized[k] = 0.0`
RateOf(rates, code) == Get(rates, code, Num(0)).val

\* a table that takes the USD rate from the payload like the others
NormalizedUsdFromPayload(rates) ==
    [c \in Currencies |-> RateOf(rates, c)]

\* lines 131-142: the normalized table of a successful fetch
Normalized(rates) ==
    [c \in Currencies |-> IF c = "USD" THEN 1 ELSE RateOf(rates, c)]

\* a fallback that leaves out what could not be fetched
FallbackUsdOnly == ("USD" :> 1)

\* line 149
Fallback == [c \in Currencies |-> IF c = "USD" THEN 1 ELSE 0]

\* whether the try block of get_usd_fx_rates reaches its return
FetchSucceeds(resp) ==
    /\ ~resp.raised
    /\ resp.status = 200
    /\ "result" \in DOMAIN resp.payload
    /\ resp.payload["result"] = "success"
    /\ "rates" \in DOMAIN resp.payload
    /\ \A c \in Currencies \ {"USD"} : ~FloatRaises(resp.payload["rates"], c)

\* the table get_usd_fx_rates stores and returns for a response
TableFor(resp) ==
    IF FetchSucceeds(resp) THEN Normalized(resp.payload["rates"]) ELSE Fallback

\* an entry of self.cache is usable
Fresh(entry) == entry.present /\ now - entry.time < cache_timeout

\* the rate payloads of the FX API: a code may be missing, zero or null
RateDicts ==
    {e @@ g @@ ("JPY" :> Num(150)) @@ ("CAD" :> Num(2)) @@ ("AUD" :> Num(3)) :
        e \in {EmptyDict, ("EUR" :> Num(0)), ("EUR" :> Num(2))},
        g \in {EmptyDict, ("GBP" :> Num(2))}}
    \cup {("EUR" :> None) @@ ("GBP" :> Num(2)),
          ("USD" :> Num(5)) @@ ("EUR" :> Num(2))}

FxResponses ==
    {Raised, Response(500, EmptyDict), Response(200, EmptyDict),
     Response(200, ("result" :> "success")),
     Response(200, ("result" :> "error") @@ ("rates" :> ("EUR" :> Num(2))))}
    \cup {Response(200, ("result" :> "success") @@ ("rates" :> r)) : r \in RateDicts}

\* a call of a cached method: the cache key, the time, whether it issued a
\* request, and what it returned
Call(fn, key, issued, returned) ==
    [fn |-> fn, key |-> key, at |-> now, issued |-> issued, returned |-> returned]

\* an entry written when only a successful fetch is stored
FxStoreSuccessOnly(entry, resp) ==
    IF FetchSucceeds(resp)
    THEN [present |-> TRUE, time |-> now, data |-> TableFor(resp)]
    ELSE entry

\* lines 143 and 151: self.cache[cache_key] = (time.time(), table), on the
\* success path and on the fallback path alike
FxStore(entry, resp) ==
    [present |-> TRUE, time |-> now, data |-> TableFor(resp)]

\* get_usd_fx_rates, lines 118-123: a fresh cache entry is returned
GetUsdFxRatesCached ==
    /\ Fresh(cache["usd_fx_rates"])
    /\ fx_rates' = cache["usd_fx_rates"].data
    /\ last_call' = Call("get_usd_fx_rates", "usd_fx_rates", FALSE,
                         cache["usd_fx_rates"].data)
    /\ UNCHANGED <<cache, now, last_fetch, formatted>>
    /\ UNCHANGED dataVars

\* get_usd_fx_rates, lines 124-152: a request is issued; its table, or the
\* fallback, is stored in fx_rates and in the cache
GetUsdFxRatesFetch ==
    /\ ~Fresh(cache["usd_fx_rates"])
    /\ \E resp \in FxResponses :
          /\ last_fetch' = resp
          /\ fx_rates' = TableFor(resp)
          /\ cache' = [cache EXCEPT !["usd_fx_rates"] = FxStore(@, resp)]
          /\ last_call' = Call("get_usd_fx_rates", "usd_fx_rates", TRUE,
                               TableFor(resp))
    /\ UNCHANGED <<now, formatted>>
    /\ UNCHANGED dataVars

SymbolMap ==
    [c \in Currencies |->
        CASE c = "USD" -> "$" [] c = "EUR" -> "EUR" [] c = "GBP" -> "GBP"
          [] c = "JPY" -> "JPY" [] c = "CAD" -> "C$" [] c = "AUD" -> "A$"]

\* converted = value_usd * self.fx_rates.get(currency, 1.0)
Convert(value_usd, currency) == value_usd * Get(fx_rates, currency, 1)

\* a suffix chosen from the signed amount
SuffixOfSigned(converted) ==
    IF converted >= 1000000000 THEN "B"
    ELSE IF converted >= 1000000 THEN "M"
    ELSE IF converted >= 1000 THEN "K"
    ELSE ""

\* the magnitude suffix of lines 189-197
SuffixOf(converted) ==
    IF Abs(converted) >= 1000000000 THEN "B"
    ELSE IF Abs(converted) >= 1000000 THEN "M"
    ELSE IF Abs(converted) >= 1000 THEN "K"
    ELSE ""

\* what the amount is divided by before it is printed with two decimals
DivisorOf(converted) ==
    IF Abs(converted) >= 1000000000 THEN 1000000000
    ELSE IF Abs(converted) >= 1000000 THEN 1000000
    ELSE IF Abs(converted) >= 1000 THEN 1000
    ELSE 1

\* f"{x:.2f}" for x = converted / divisor, as the hundredths of |x| it
\* prints: the nearest; x is a binary double, so when the decimal quotient
\* lies exactly between two hundredths either of them may be the nearer one
TwoDecimals(converted) ==
    LET a == Abs(converted)
        u == DivisorOf(converted) \div 100
    IN  IF DivisorOf(converted) = 1 THEN {a * 100}
        ELSE IF 2 * (a % u) < u THEN {a \div u}
        ELSE IF 2 * (a % u) > u THEN {(a \div u) + 1}
        ELSE {a \div u, (a \div u) + 1}

\* the digits of f"{x:.2f}" for h hundredths, with the sign of x
TwoDecimalText(negative, h) ==
    (IF negative THEN "-" ELSE "")
        \o ToString(h \div 100) \o "."
        \o (IF h % 100 < 10 THEN "0" ELSE "") \o ToString(h % 100)

\* format_currency: the strings it may return, each with the parts it is
\* made of (prefix, the amount printed with two decimals, suffix); a zero or
\* undefined input gives the prefix followed by "0"
format_currency(value_usd, currency) ==
    IF isna(value_usd) \/ value_usd.val = 0
    THEN {[called |-> TRUE, value |-> value_usd, currency |-> currency,
           prefix |-> Get(SymbolMap, currency, "$"), zero |-> TRUE,
           converted |-> 0, mantissa |-> Ratio(0, 1), hundredths |-> 0,
           suffix |-> "", text |-> Get(SymbolMap, currency, "$") \o "0"]}
    ELSE LET converted == Convert(value_usd.val, currency)
         IN  {[called |-> TRUE, value |-> value_usd, currency |-> currency,
               prefix |-> Get(SymbolMap, currency, "$"), zero |-> FALSE,
               converted |-> converted,
               mantissa |-> Ratio(converted, DivisorOf(converted)),
               hundredths |-> h,
               suffix |-> SuffixOf(converted),
               text |-> Get(SymbolMap, currency, "$")
                            \o TwoDecimalText(converted < 0, h)
                            \o SuffixOf(converted)] :
                 h \in TwoDecimals(converted)}

\* the USD amounts that are formatted: undefined, zero, and amounts on both
\* sides of each threshold (the largest keeps value * rate within 2^31)
FormattedValues ==
    {NaN, None, Num(0), Num(7), Num(-1500), Num(999), Num(1000), Num(1005),
     Num(999999), Num(1000000), Num(-2500000), Num(999999999),
     Num(1000000000), Num(1072000000)}

FormatCurrency ==
    /\ \E v \in FormattedValues, c \in {"USD", "EUR", "CHF"} :
          \E f \in format_currency(v, c) : formatted' = f
    /\ UNCHANGED <<fx_rates, cache, now, last_fetch, last_call>>
    /\ UNCHANGED dataVars

TickSteps == {1799, 1801}

\* time passes between calls
Tick ==
    /\ \E d \in TickSteps : now + d <= MaxNow /\ now' = now + d
    /\ UNCHANGED <<fx_rates, cache, last_fetch, last_call, formatted>>
    /\ UNCHANGED dataVars

NextFx ==
    \/ GetUsdFxRatesCached
    \/ GetUsdFxRatesFetch
    \/ FormatCurrency
    \/ Tick

SpecFx == Init /\ [][NextFx]_vars

-----------------------------------------------------------------------------
(* TreasuryTracker.get_treasury_data and its cache *)

\* cache_key = f"treasury_{coin_id}"
TreasuryKey(coin_id) == "treasury_" \o coin_id

CoinIds == {"bitcoin", "ethereum"}

\* response.json() raised on a 200 response
JsonRaised == [raised |-> TRUE, status |-> 200, payload |-> EmptyDict]

\* the outcomes of self.session.get(url): the request raised, a non-200
\* status, a 200 whose body does not parse, a 200 with a JSON null, and 200s
\* with two different objects
TreasuryResponses ==
    {Raised, JsonRaised, Response(404, Payload(EmptyDict)), Response(200, NonePayload),
     Response(200, Payload(("companies" :> <<>>))),
     Response(200, Payload(("companies" :> <<NameOf(1)>>)))}

\* lines 78-79: the response is a 200 and its body parses
TreasuryOk(resp) == ~resp.raised /\ resp.status = 200

\* an entry written whatever the outcome of the request
TreasuryStoreAlways(entry, resp) ==
    [present |-> TRUE, time |-> now,
     data |-> IF TreasuryOk(resp) THEN resp.payload ELSE NonePayload]

\* line 81: self.cache[cache_key] = (time.time(), data), on a 200 only
TreasuryStore(entry, resp) ==
    IF TreasuryOk(resp)
    THEN [present |-> TRUE, time |-> now, data |-> resp.payload]
    ELSE entry

\* lines 82, 85, 89: what a call that issued the request returns
TreasuryReturn(resp) == IF TreasuryOk(resp) THEN resp.payload ELSE NonePayload

\* get_treasury_data, lines 66-72: a fresh cache entry is returned
GetTreasuryDataCached ==
    /\ \E coin_id \in CoinIds :
          /\ Fresh(cache[TreasuryKey(coin_id)])
          /\ last_call' = Call("get_treasury_data", TreasuryKey(coin_id), FALSE,
                               cache[TreasuryKey(coin_id)].data)
    /\ UNCHANGED <<fx_rates, cache, now, last_fetch, formatted>>
    /\ UNCHANGED dataVars

\* get_treasury_data, lines 74-89: a request is issued; a 200 is stored and
\* returned, every other outcome returns None
GetTreasuryDataFetch ==
    /\ \E coin_id \in CoinIds, resp \in TreasuryResponses :
          /\ ~Fresh(cache[TreasuryKey(coin_id)])
          /\ last_fetch' = resp
          /\ cache' = [cache EXCEPT ![TreasuryKey(coin_id)] = TreasuryStore(@, resp)]
          /\ last_call' = Call("get_treasury_data", TreasuryKey(coin_id), TRUE,
                               TreasuryReturn(resp))
    /\ UNCHANGED <<fx_rates, now, formatted>>
    /\ UNCHANGED dataVars

NextTreasury ==
    \/ GetTreasuryDataCached
    \/ GetTreasuryDataFetch
    \/ Tick

SpecTreasury == Init /\ [][NextTreasury]_vars

-----------------------------------------------------------------------------
(* Properties of the single-asset views *)

\* the payload and the table of the view a finished run showed
ShownData == IF selected_asset = "Ethereum (ETH)" THEN eth_data ELSE btc_data
ShownTable == IF selected_asset = "Ethereum (ETH)" THEN eth_df ELSE btc_df
SingleShown == pc = "done" /\ selected_asset # "Both" /\ truthyData(ShownData)

\* the position in the payload's company list of the company named n
\* (the payloads of the single-asset views name their companies apart)
InputPos(n) ==
    CHOOSE i \in 1..Len(CompaniesOf(ShownData)) :
        Get(CompaniesOf(ShownData)[i], "name", "Unknown") = n

RawCompany(n) == CompaniesOf(ShownData)[InputPos(n)]

\* a raw field that is absent: key missing or null
Absent(c, k) == k \notin DOMAIN c \/ c[k].tag = "None"

\* C1: every processed record has PnL % = 0 when its entry value is 0 or
\* absent (key missing or null), and otherwise PnL % = (current - entry) /
\* entry * 100 (a current value whose key is missing counting as 0); the
\* percentage is never undefined (NaN).
C1_PnLPctZeroGuard ==
    SingleShown =>
        \A i \in 1..Len(ShownTable) :
            LET r == ShownTable[i]
                c == RawCompany(r.Name)
                cur == Get(c, "total_current_value_usd", Num(0))
            IN  /\ r.PnL_pct.tag # "NaN"
                /\ (Absent(c, "total_entry_value_usd")
                       \/ c["total_entry_value_usd"] = Num(0))
                       => r.PnL_pct = Ratio(0, 1)
                /\ (~Absent(c, "total_entry_value_usd")
                       /\ c["total_entry_value_usd"] # Num(0) /\ IsNum(cur))
                       => r.PnL_pct =
                            Ratio((cur.val - c["total_entry_value_usd"].val) * 100,
                                  c["total_entry_value_usd"].val)

\* C8: BTC supply dominance is the sum of the reported percentages when one
\* company at least reports a nonzero percentage, and total holdings /
\* 21,000,000 * 100 in every other case (no companies, or every percentage
\* missing or zero).
C8_DominanceFallback ==
    (pc = "done" /\ selected_asset = "Bitcoin (BTC)" /\ truthyData(btc_data)
        /\ "total_holdings" \in DOMAIN btc_data.d) =>
        LET companies == CompaniesOf(btc_data)
            reported == \E i \in 1..Len(companies) :
                            /\ ~Absent(companies[i], "percentage_of_total_supply")
                            /\ companies[i]["percentage_of_total_supply"] # Num(0)
        IN  dominance = IF reported THEN Ratio(SumPct(companies), 1)
                        ELSE Ratio(TotalHeld(btc_data, "bitcoin") * 100, BTC_MAX_SUPPLY)

\* rows i < j of the table are in descending order of holdings, rows whose
\* holdings are undefined last
DescendingRows(t) ==
    \A i, j \in 1..Len(t) :
        i < j => \/ isna(t[j].Total_Holdings)
                 \/ /\ IsNum(t[i].Total_Holdings)
                    /\ t[i].Total_Holdings.val >= t[j].Total_Holdings.val

\* the table holds the payload's companies, each once
SameCompanies(t) ==
    /\ Len(t) = Len(CompaniesOf(ShownData))
    /\ {t[i].Name : i \in 1..Len(t)} =
       {Get(CompaniesOf(ShownData)[i], "name", "Unknown") :
            i \in 1..Len(CompaniesOf(ShownData))}

\* C9 (as stated): the rows are in descending order of holdings and rows
\* with equal holdings keep their order from the input company list.
C9_StableDescending ==
    SingleShown =>
        /\ SameCompanies(ShownTable)
        /\ DescendingRows(ShownTable)
        /\ \A i, j \in 1..Len(ShownTable) :
              (i < j /\ ShownTable[i].Total_Holdings = ShownTable[j].Total_Holdings)
                  => InputPos(ShownTable[i].Name) < InputPos(ShownTable[j].Name)

\* C9 (amended): the rows are the payload's companies in descending order of
\* holdings, rows with undefined holdings last in input order; nothing is
\* promised about the order of rows with equal (defined) holdings.
C9_Descending ==
    SingleShown =>
        /\ SameCompanies(ShownTable)
        /\ DescendingRows(ShownTable)
        /\ \A i, j \in 1..Len(ShownTable) :
              (i < j /\ isna(ShownTable[i].Total_Holdings))
                  => InputPos(ShownTable[i].Name) < InputPos(ShownTable[j].Name)

\* C9 witness: the sort moved a company with larger holdings ahead of one
\* that preceded it in the payload
C9_Witness ==
    /\ SingleShown
    /\ Len(ShownTable) >= 2
    /\ IsNum(ShownTable[1].Total_Holdings) /\ IsNum(ShownTable[2].Total_Holdings)
    /\ ShownTable[1].Total_Holdings.val > ShownTable[2].Total_Holdings.val
    /\ InputPos(ShownTable[1].Name) > InputPos(ShownTable[2].Name)

NonNegative(v) == IsNum(v) /\ v.val >= 0

\* C10: after normalisation every row's holdings, entry value and current
\* value is non-negative, and a missing field (key missing or null) is 0.
C10_NonNegative ==
    SingleShown =>
        \A i \in 1..Len(ShownTable) :
            LET r == ShownTable[i]
                c == RawCompany(r.Name)
            IN  /\ NonNegative(r.Total_Holdings)
                /\ NonNegative(r.Entry_Value)
                /\ NonNegative(r.Current_Value)
                /\ Absent(c, "total_holdings") => r.Total_Holdings = Num(0)
                /\ Absent(c, "total_entry_value_usd") => r.Entry_Value = Num(0)
                /\ Absent(c, "total_current_value_usd") => r.Current_Value = Num(0)

-----------------------------------------------------------------------------
(* Properties of the combined view *)

CombinedShown ==
    pc = "done" /\ selected_asset = "Both"
        /\ (truthyData(btc_data) \/ truthyData(eth_data))

CombinedKey(r) == <<r.Company, r.Symbol, r.Country>>

\* the positions of the merged table t whose key is k, in order
CombinedRows(t, k) ==
    SelectSeq([i \in 1..Len(t) |-> i], LAMBDA i : CombinedKey(t[i]) = k)

InputKeys == KeysOf(btc_df) \cup KeysOf(eth_df)

\* C2 (as stated): the merged table has exactly one row per identity key of
\* the BTC or the ETH table, and no row whose key is in neither.
C2_OneRowPerKey ==
    CombinedShown =>
        /\ \A k \in InputKeys : Len(CombinedRows(combined_df, k)) = 1
        /\ \A i \in 1..Len(combined_df) : CombinedKey(combined_df[i]) \in InputKeys

\* C2 (amended): the keys of the merged table are exactly the keys of the
\* BTC or the ETH table; a key that m BTC rows and n ETH rows carry has
\* m * n rows (m or n when the other table lacks it), so exactly one row
\* when no table repeats the key.
C2_OuterJoinKeys ==
    CombinedShown =>
        /\ {CombinedKey(combined_df[i]) : i \in 1..Len(combined_df)} = InputKeys
        /\ \A k \in InputKeys :
              LET m == Len(RowsWithKey(btc_df, k))
                  n == Len(RowsWithKey(eth_df, k))
              IN  Len(CombinedRows(combined_df, k)) =
                      (IF m = 0 THEN 1 ELSE m) * (IF n = 0 THEN 1 ELSE n)

\* C2 witness: a key only BTC has, a key only ETH has and a key both have
C2_Witness ==
    /\ CombinedShown
    /\ KeysOf(btc_df) \ KeysOf(eth_df) # {}
    /\ KeysOf(eth_df) \ KeysOf(btc_df) # {}
    /\ KeysOf(btc_df) \cap KeysOf(eth_df) # {}
    /\ Len(combined_df) = 3

\* C3: for a key that only one asset's table has, the merged rows have 0 in
\* the other asset's held, entry and current columns, and their Total
\* Current Value is the current value of the present asset's row, unchanged.
C3_AbsentAssetZero ==
    CombinedShown =>
        /\ \A k \in KeysOf(btc_df) \ KeysOf(eth_df) :
              LET L == RowsWithKey(btc_df, k)
                  M == CombinedRows(combined_df, k)
              IN  /\ Len(M) = Len(L)
                  /\ \A n \in 1..Len(M) :
                        /\ combined_df[M[n]].ETH_Held = Num(0)
                        /\ combined_df[M[n]].EntryUSD_ETH = Num(0)
                        /\ combined_df[M[n]].CurrentUSD_ETH = Num(0)
                        /\ combined_df[M[n]].Total_Current_Value =
                               btc_df[L[n]].Current_Value
        /\ \A k \in KeysOf(eth_df) \ KeysOf(btc_df) :
              LET L == RowsWithKey(eth_df, k)
                  M == CombinedRows(combined_df, k)
              IN  /\ Len(M) = Len(L)
                  /\ \A n \in 1..Len(M) :
                        /\ combined_df[M[n]].BTC_Held = Num(0)
                        /\ combined_df[M[n]].EntryUSD_BTC = Num(0)
                        /\ combined_df[M[n]].CurrentUSD_BTC = Num(0)
                        /\ combined_df[M[n]].Total_Current_Value =
                               eth_df[L[n]].Current_Value

\* C4: in every merged row Total Entry Value = EntryUSD_BTC + EntryUSD_ETH,
\* Total Current Value = CurrentUSD_BTC + CurrentUSD_ETH, Total PnL is their
\* difference, and the combined PnL % is Total PnL / Total Entry Value * 100,
\* or 0 when the Total Entry Value is 0.
C4_CombinedTotals ==
    CombinedShown =>
        \A i \in 1..Len(combined_df) :
            LET r == combined_df[i]
                entry == r.EntryUSD_BTC.val + r.EntryUSD_ETH.val
                current == r.CurrentUSD_BTC.val + r.CurrentUSD_ETH.val
            IN  /\ IsNum(r.EntryUSD_BTC) /\ IsNum(r.EntryUSD_ETH)
                /\ IsNum(r.CurrentUSD_BTC) /\ IsNum(r.CurrentUSD_ETH)
                /\ r.Total_Entry_Value = Num(entry)
                /\ r.Total_Current_Value = Num(current)
                /\ r.Total_PnL = Num(current - entry)
                /\ r.Company_PnL_pct =
                       IF entry = 0 THEN Ratio(0, 1)
                       ELSE Ratio((current - entry) * 100, entry)

\* C4 witness: a company held in both assets whose combined percentage is
\* not 0, beside a company whose combined entry value is 0
C4_Witness ==
    /\ CombinedShown
    /\ \E i \in 1..Len(combined_df) :
          /\ combined_df[i].EntryUSD_BTC.val > 0
          /\ combined_df[i].EntryUSD_ETH.val > 0
          /\ combined_df[i].Company_PnL_pct # Ratio(0, 1)
    /\ \E i \in 1..Len(combined_df) :
          /\ combined_df[i].Total_Entry_Value = Num(0)
          /\ combined_df[i].BTC_Held.val > 0

\* the totals of a merged table, per row
TotalsOf(t) ==
    [i \in 1..Len(t) |->
        <<t[i].Company, t[i].Symbol, t[i].Country,
          t[i].Total_Entry_Value, t[i].Total_Current_Value, t[i].Total_PnL>>]

\* how many rows of t carry the totals x
Count(t, x) == Cardinality({i \in 1..Len(t) : t[i] = x})

SameBag(s, t) ==
    /\ Len(s) = Len(t)
    /\ \A i \in 1..Len(s) : Count(s, s[i]) = Count(t, s[i])

\* C5: merging the two tables in either role order gives the same identity
\* keys and, per key, the same combined entry value, combined current value
\* and combined PnL (as a multiset of rows: the order may differ).
C5_MergeCommutes ==
    CombinedShown =>
        /\ combined_df = (IF Len(btc_df) > 0 \/ Len(eth_df) > 0
                          THEN CombinedOf(btc_df, eth_df) ELSE <<>>)
        /\ SameBag(TotalsOf(combined_df), TotalsOf(CombinedOf(eth_df, btc_df)))

\* C5 witness: the tables differ, share a key and one has a key of its own
C5_Witness ==
    /\ CombinedShown
    /\ KeysOf(btc_df) \cap KeysOf(eth_df) # {}
    /\ KeysOf(btc_df) \ KeysOf(eth_df) # {}
    /\ \E i \in 1..Len(combined_df) :
          /\ combined_df[i].BTC_Held.val > 0 /\ combined_df[i].ETH_Held.val > 0
          /\ combined_df[i].EntryUSD_BTC # combined_df[i].EntryUSD_ETH

\* the rows of a per-asset table as the merge carries them: identity key,
\* holdings, entry and current value, an undefined cell reading 0 (fillna)
AssetRows(t) ==
    [i \in 1..Len(t) |->
        <<KeyOf(t[i]), fillna0(t[i].Total_Holdings), fillna0(t[i].Entry_Value),
          fillna0(t[i].Current_Value)>>]

BtcSide(t) ==
    [i \in 1..Len(t) |->
        <<CombinedKey(t[i]), t[i].BTC_Held, t[i].EntryUSD_BTC, t[i].CurrentUSD_BTC>>]

EthSide(t) ==
    [i \in 1..Len(t) |->
        <<CombinedKey(t[i]), t[i].ETH_Held, t[i].EntryUSD_ETH, t[i].CurrentUSD_ETH>>]

\* a payload that carries no company list: None, {} or no 'companies' key
NoCompanyList(data) ==
    data.none \/ DOMAIN data.d = {} \/ "companies" \notin DOMAIN data.d

\* the "Both" run ended with one fetch failed and the other answered
OnlyEthAnswered ==
    pc = "done" /\ selected_asset = "Both" /\ btc_data.none /\ ~eth_data.none
OnlyBtcAnswered ==
    pc = "done" /\ selected_asset = "Both" /\ eth_data.none /\ ~btc_data.none

\* C11: process_treasury_data returns the empty table for a payload that is
\* None, empty or without a company list; and when exactly one asset's fetch
\* failed in the "Both" view, the run ends with the failed asset's table
\* empty and the combined table holding every row of the other asset (as a
\* multiset, the failed asset's columns all 0).
C11_AbsenceIsAResult ==
    /\ \A data \in {btc_data, eth_data} :
          NoCompanyList(data) => process_treasury_data(data) = {<<>>}
    /\ OnlyEthAnswered =>
          /\ btc_df = <<>>
          /\ SameBag(EthSide(combined_df), AssetRows(eth_df))
          /\ \A i \in 1..Len(combined_df) :
                BtcSide(combined_df)[i] =
                    <<CombinedKey(combined_df[i]), Num(0), Num(0), Num(0)>>
    /\ OnlyBtcAnswered =>
          /\ eth_df = <<>>
          /\ SameBag(BtcSide(combined_df), AssetRows(btc_df))
          /\ \A i \in 1..Len(combined_df) :
                EthSide(combined_df)[i] =
                    <<CombinedKey(combined_df[i]), Num(0), Num(0), Num(0)>>

\* C11 witness: the bitcoin fetch failed and the combined table shows the two
\* ethereum companies with no bitcoin
C11_Witness ==
    /\ OnlyEthAnswered
    /\ Len(eth_df) = 2
    /\ Len(combined_df) = 2
    /\ \A i \in 1..2 : combined_df[i].BTC_Held = Num(0)
                        /\ combined_df[i].ETH_Held = Num(5)

-----------------------------------------------------------------------------
(* Properties of the FX rate table *)

\* C6: in every state, before the first get_usd_fx_rates call included,
\* fx_rates has USD with rate 1, and a value formatted with target currency
\* USD was converted by the identity.
C6_UsdIsOne ==
    /\ "USD" \in DOMAIN fx_rates
    /\ fx_rates["USD"] = 1
    /\ (formatted.called /\ formatted.currency = "USD" /\ ~formatted.zero)
           => formatted.converted = formatted.value.val

\* C6 witness: a failed fetch was followed by formatting a USD value
C6_Witness ==
    /\ cache["usd_fx_rates"].present
    /\ ~FetchSucceeds(last_fetch)
    /\ formatted.called /\ formatted.currency = "USD" /\ ~formatted.zero
    /\ formatted.converted = -1500

\* the last request did not resolve currency c
Unresolved(resp, c) ==
    \/ resp.raised
    \/ resp.status # 200
    \/ "result" \notin DOMAIN resp.payload
    \/ "rates" \notin DOMAIN resp.payload
    \/ resp.payload["result"] # "success"
    \/ c \notin DOMAIN resp.payload["rates"]

SixCodes ==
    /\ DOMAIN fx_rates = Currencies
    /\ \A c \in Currencies \ {"USD"} : Unresolved(last_fetch, c) => fx_rates[c] = 0

\* C7 (as stated): in every state in which format_currency can be called
\* (it has no precondition: every state) the table has an entry for each of
\* the six codes, an unresolved currency having rate 0.
C7_SixCodesAlways == SixCodes

\* C7 (amended): once get_usd_fx_rates has returned (each of its paths leaves
\* a cache entry), the table has an entry for each of the six codes and a
\* currency the last request did not resolve has rate 0; before the first
\* call the table holds USD only.
C7_SixCodesAfterFetch ==
    IF cache["usd_fx_rates"].present THEN SixCodes
    ELSE fx_rates = ("USD" :> 1)

\* C7 witness: a successful fetch without EUR gave EUR the rate 0 and kept
\* the rate it had for GBP
C7_Witness ==
    /\ cache["usd_fx_rates"].present
    /\ FetchSucceeds(last_fetch)
    /\ "EUR" \notin DOMAIN last_fetch.payload["rates"]
    /\ fx_rates["EUR"] = 0
    /\ fx_rates["GBP"] = 2

-----------------------------------------------------------------------------
(* Properties of format_currency *)

SuffixRank(x) == CASE x = "" -> 0 [] x = "K" -> 1 [] x = "M" -> 2 [] x = "B" -> 3

\* what the printed amount was divided by, from the suffix
ScaleOf(x) ==
    CASE x = "" -> 1 [] x = "K" -> 1000 [] x = "M" -> 1000000 [] x = "B" -> 1000000000

\* the last format_currency call rendered as the claim says
RenderedAsClaimed(f) ==
    IF isna(f.value) \/ f.value = Num(0)
    THEN f.text = Get(SymbolMap, f.currency, "$") \o "0"
    ELSE LET a == Abs(f.converted)
             scale == ScaleOf(f.suffix)
         IN  /\ f.suffix = (IF a >= 1000000000 THEN "B"
                            ELSE IF a >= 1000000 THEN "M"
                            ELSE IF a >= 1000 THEN "K" ELSE "")
             \* the printed number is amount / scale to two decimals
             /\ IF scale = 1 THEN f.hundredths = a * 100
                ELSE 2 * Abs(a - f.hundredths * (scale \div 100)) <= scale \div 100
             /\ f.text = Get(SymbolMap, f.currency, "$")
                             \o TwoDecimalText(f.converted < 0, f.hundredths)
                             \o f.suffix

\* C12: the string format_currency returns is the currency symbol, the
\* converted amount divided by 1e9 / 1e6 / 1e3 / 1 according to its absolute
\* value and printed with two decimals, and the suffix B / M / K / none; an
\* input of 0 or an undefined input gives the symbol followed by "0"; and of
\* two consecutive calls the one with the amount of larger magnitude never
\* has the smaller suffix.
C12_SuffixByMagnitude ==
    /\ [](formatted.called => RenderedAsClaimed(formatted))
    /\ [][(formatted.called /\ formatted'.called
              /\ Abs(formatted.converted) <= Abs(formatted'.converted))
             => SuffixRank(formatted.suffix) <= SuffixRank(formatted'.suffix)]_vars

\* C12 witness: an amount converted at rate 2 into the billions
C12_Witness ==
    /\ formatted.called
    /\ formatted.value = Num(1072000000)
    /\ formatted.text = "EUR2.14B"

-----------------------------------------------------------------------------
(* Properties of the tracker's cache *)

\* what a call of a cached method can change
callVars == <<last_call, last_fetch, cache, fx_rates>>

\* the step is a get_treasury_data call (one that repeats the previous call
\* with the same outcome and no effect is a stuttering step)
TreasuryCallStep ==
    callVars' # callVars /\ last_call'.fn = "get_treasury_data"

\* C13: a get_treasury_data call returns the cached payload without issuing a
\* request exactly when an entry for the coin exists and is younger than 3600
\* seconds; otherwise it issues a request, a 200 response replaces that
\* coin's entry (and no other) and is returned, and a failed request
\* (non-200 or exception) returns None, not the expired payload, and leaves
\* the cache as it was.
C13_CacheOrRequest ==
    [][/\ ~TreasuryCallStep => cache' = cache
       /\ TreasuryCallStep =>
             LET k == last_call'.key
                 young == cache[k].present /\ now - cache[k].time < 3600
                 ok == ~last_fetch'.raised /\ last_fetch'.status = 200
             IN  /\ k \in {"treasury_bitcoin", "treasury_ethereum"}
                 /\ last_call'.issued = ~young
                 /\ young => /\ last_call'.returned = cache[k].data
                              /\ cache' = cache
                              /\ last_fetch' = last_fetch
                 /\ (~young /\ ok) =>
                        /\ cache' = [cache EXCEPT ![k] =
                                         [present |-> TRUE, time |-> now,
                                          data |-> last_fetch'.payload]]
                        /\ last_call'.returned = last_fetch'.payload
                 /\ (~young /\ ~ok) =>
                        /\ cache' = cache
                        /\ last_call'.returned = NonePayload]_vars

\* C13 witness: a request for a coin whose entry had expired failed with a
\* 404; the call returned None and the expired payload is still cached
C13_Witness ==
    /\ last_call.fn = "get_treasury_data"
    /\ last_call.key = "treasury_ethereum"
    /\ last_call.issued
    /\ last_fetch.status = 404
    /\ last_call.returned = NonePayload
    /\ cache["treasury_ethereum"].present
    /\ cache["treasury_ethereum"].data = Payload(("companies" :> <<NameOf(1)>>))
    /\ last_call.at - cache["treasury_ethereum"].time >= 3600
    /\ cache["treasury_bitcoin"].present

\* USD = 1.0 and every other currency 0.0
AllZeroTable == [c \in Currencies |-> IF c = "USD" THEN 1 ELSE 0]

\* the step is a get_usd_fx_rates call
FxCallStep ==
    callVars' # callVars /\ last_call'.fn = "get_usd_fx_rates"

\* C14: after every get_usd_fx_rates call fx_rates (the table the call
\* returned) equals the table cached under 'usd_fx_rates'; a call whose
\* request failed stored the all-zero table with the time of the call; and
\* while that entry is younger than 3600 seconds every call returns it
\* without issuing a request.
C14_FailureIsCached ==
    /\ [](last_call.fn = "get_usd_fx_rates" =>
            /\ cache["usd_fx_rates"].present
            /\ fx_rates = cache["usd_fx_rates"].data
            /\ last_call.returned = fx_rates
            /\ (last_call.issued /\ ~FetchSucceeds(last_fetch)) =>
                   cache["usd_fx_rates"] =
                       [present |-> TRUE, time |-> last_call.at, data |-> AllZeroTable])
    /\ [][(/\ FxCallStep
            /\ cache["usd_fx_rates"].present
            /\ ~FetchSucceeds(last_fetch)
            /\ now - cache["usd_fx_rates"].time < 3600)
           => /\ ~last_call'.issued
              /\ last_call'.returned = AllZeroTable
              /\ fx_rates' = AllZeroTable
              /\ cache' = cache
              /\ last_fetch' = last_fetch]_vars

\* C14 witness: a request failed with a 500 and a call 3598 seconds later
\* was answered with the all-zero table from the cache
C14_Witness ==
    /\ last_call.fn = "get_usd_fx_rates"
    /\ ~last_call.issued
    /\ last_call.returned = AllZeroTable
    /\ last_fetch.status = 500
    /\ cache["usd_fx_rates"].present
    /\ last_call.at - cache["usd_fx_rates"].time = 3598

====
